---- MODULE Spec2Model ----
(***************************************************************************)
(* Legal_MAD: the Debater and Judge agents of the multi-agent debate.      *)
(*                                                                         *)
(* JSON-like dictionaries are functions from a finite set of keys; a key   *)
(* that is absent from the dictionary is absent from the DOMAIN.  Every    *)
(* agent method is one action: it consumes one answer of the language      *)
(* model client (a parsed dictionary, or a failure), validates it exactly  *)
(* as the source does, updates the agent's attributes and leaves its       *)
(* outcome (the returned dictionary or the raised exception) in `last`.    *)
(* The caller then takes the outcome (CallerRecords / CallerDiscards)      *)
(* before it issues the next call: one thread of control.                  *)
(***************************************************************************)
EXTENDS Naturals, Sequences, FiniteSets, TLC

VARIABLES
    debater,         \* debater[d] = [position, opening_argument]: the attributes of Debater d
    debate_history,  \* the transcript dictionary the caller assembles and hands to the Judge
    done,            \* the operations of the run that have succeeded so far
    last,            \* the call in flight: its arguments, the client's answer, its outcome
    run,             \* the debate run in progress: its variant, its state, what it gave its caller
    pair             \* two debate runs side by side, each with its own Debaters and Judge

vars == <<debater, debate_history, done, last, run, pair>>

(***************************************************************************)
(* Python values                                                           *)
(***************************************************************************)
\* None where a string is expected (self.position, the position argument)
NoneStr == "None"
\* None where a dictionary is expected (self.opening_argument)
None == [none |-> TRUE]
\* {}
EmptyDict == [k \in {} |-> ""]

\* k in d
Has(d, k) == k \in DOMAIN d
\* d.get(k, default)
Get(d, k, default) == IF k \in DOMAIN d THEN d[k] ELSE default
\* d with the keys outside K removed
Restrict(d, K) == [k \in (DOMAIN d) \cap K |-> d[k]]
\* d with key k removed
Drop(d, k) == [x \in (DOMAIN d) \ {k} |-> d[x]]
\* d with d[k] = v
SetKey(d, k, v) == [x \in (DOMAIN d) \cup {k} |-> IF x = k THEN v ELSE d[x]]
\* bool(v) of a dictionary-or-None value: None and {} are falsy
Truthy(v) == v # None /\ DOMAIN v # {}

\* the four answer labels
Labels == {"A", "B", "C", "D"}
\* the two sides, named by their transcript keys
Debaters == {"debater_x", "debater_y"}
Opponent(d) == IF d = "debater_x" THEN "debater_y" ELSE "debater_x"

(***************************************************************************)
(* Outcomes of a call                                                      *)
(***************************************************************************)
Return(v) == [status |-> "returned", value |-> v]
Raise(type, msg) == [status |-> "raised", type |-> type, msg |-> msg]
NoOutcome == [status |-> "none"]

\* The client's answer: a parsed dictionary, or a failure it raises.
Answer(json) == [ok |-> TRUE, json |-> json]
Failure == [ok |-> FALSE]
\* client.generate_json raising: the agents have no try/except around it
GenerationError == Raise("GenerationError", <<"generate_json failed">>)

(***************************************************************************)
(* The prompt modules, as the sets of the names they define                *)
(***************************************************************************)
\* src/agents/prompts.py
PromptsModule ==
    {"get_debater_opening_prompt", "get_debater_rebuttal_prompt",
     "get_judge_decision_prompt"}
\* src/agents/prompts_experimental.py
PromptsExperimentalModule ==
    {"get_debater_opening_prompt", "get_debater_rebuttal_prompt",
     "get_judge_decision_prompt", "get_debater_opening_prompt_irac",
     "get_debater_rebuttal_prompt_irac", "get_judge_decision_prompt_irac",
     "get_judge_decision_prompt_hybrid"}
\* `from <module> import <name>` raises ImportError when the module does not define the name
ImportError(name) == Raise("ImportError", <<"cannot import name", name>>)

(***************************************************************************)
(* What the language model client may answer (bounded input sets)          *)
(***************************************************************************)
\* a position the model may put in its answer: a label, or something else
AnswerPositions == Labels \cup {"E"}
Citations == <<"c">>

IracFull == [issue |-> "t", rule |-> "t", application |-> "t", conclusion |-> "t"]
IracEmptyText == [issue |-> "", rule |-> "", application |-> "", conclusion |-> ""]
\* complete, complete with empty text, and each single key missing
IracShapes == {IracFull, IracEmptyText} \cup {Drop(IracFull, k) : k \in DOMAIN IracFull}

CritiqueFull ==
    [issue_critique |-> "t", rule_critique |-> "t", application_critique |-> "t",
     my_reinforcement |-> "t"]
CritiqueShapes == {CritiqueFull} \cup {Drop(CritiqueFull, k) : k \in DOMAIN CritiqueFull}

\* every sub-dictionary of d that keeps the keys in Keep
SubDicts(d, Keep) == {Restrict(d, K \cup Keep) : K \in SUBSET (DOMAIN d)}

VanillaOpeningAnswers ==
    {Failure} \cup
    {Answer(j) : j \in UNION {SubDicts([position |-> p, argument |-> "t", citations |-> Citations],
                                       {"citations"}) : p \in AnswerPositions}}
IracOpeningAnswers ==
    {Failure} \cup
    {Answer(j) : j \in UNION {SubDicts([position |-> p, irac |-> i, citations |-> Citations],
                                       {"citations"}) : p \in AnswerPositions, i \in IracShapes}}
VanillaRebuttalAnswers ==
    {Failure} \cup
    {Answer(j) : j \in SubDicts([rebuttal |-> "t", counterarguments |-> <<"p">>,
                                 citations |-> Citations], {"counterarguments", "citations"})}
IracRebuttalAnswers ==
    {Failure} \cup
    {Answer(j) : j \in UNION {SubDicts([rebuttal |-> r, citations |-> Citations],
                                       {"citations"}) : r \in CritiqueShapes}}

\* the position argument of an opening call: a label, or None (free choice)
PositionArgs == Labels \cup {NoneStr}

(***************************************************************************)
(* The call in flight                                                      *)
(***************************************************************************)
Call(op, who, position, opponent_opening, answer, prompt, calls, outcome) ==
    [op |-> op, who |-> who, position |-> position,
     opponent_opening |-> opponent_opening, answer |-> answer,
     prompt |-> prompt, calls |-> calls, outcome |-> outcome]
Idle == Call("idle", "nobody", NoneStr, EmptyDict, Failure, EmptyDict, 0, NoOutcome)

Returned == last.outcome.status = "returned"
Raised == last.outcome.status = "raised"
RaisedWith(type, msg) == Raised /\ last.outcome.type = type /\ last.outcome.msg = msg

(***************************************************************************)
(* Debater (src/agents/debater_experimental.py)                            *)
(***************************************************************************)
\* Debater.__init__
NewDebater == [position |-> NoneStr, opening_argument |-> None]

\* the first key of the list `keys` that dictionary d lacks, or None
FirstMissing(keys, d) ==
    LET I == {i \in 1..Len(keys) : ~Has(d, keys[i])}
    IN IF I = {} THEN NoneStr ELSE keys[CHOOSE i \in I : \A j \in I : i <= j]

\* the values get_debater_opening_prompt interpolates
OpeningPrompt(position) == [position |-> position]
\* mutant: the opponent's fields are read from the Debater's own opening
RebuttalPromptOwnOpening(my_position, my_opening, opponent_opening) ==
    [my_position |-> my_position,
     my_argument |-> Get(my_opening, "argument", ""),
     opponent_position |-> Get(my_opening, "position", ""),
     opponent_argument |-> Get(my_opening, "argument", "")]

\* the values get_debater_rebuttal_prompt interpolates
RebuttalPrompt(my_position, my_opening, opponent_opening) ==
    [my_position |-> my_position,
     my_argument |-> Get(my_opening, "argument", ""),
     opponent_position |-> Get(opponent_opening, "position", ""),
     opponent_argument |-> Get(opponent_opening, "argument", "")]

\* generate_opening, lines 54-56: the validation of the answer
ValidOpening(response) == Has(response, "position") /\ Has(response, "argument")
\* generate_opening, lines 58-60: the attributes after a valid answer
\* mutant: a position already held is kept when a new opening is stored
StoreOpeningKeepsPosition(self, response) ==
    [position |-> IF self.position = NoneStr THEN response["position"] ELSE self.position,
     opening_argument |-> response]
StoreOpening(self, response) ==
    [self EXCEPT !.position = response["position"], !.opening_argument = response]

\* mutant: a failed generation is replaced by a default opening
GenerateOpeningDefaulted(answer) ==
    IF ~answer.ok THEN Return([position |-> "A", argument |-> ""])
    ELSE IF ~ValidOpening(answer.json)
         THEN Raise("ValueError", <<"Invalid debater response">>)
         ELSE Return(answer.json)
GenerateOpeningOutcome(answer) ==
    IF ~answer.ok THEN GenerationError
    ELSE IF ~ValidOpening(answer.json)
         THEN Raise("ValueError", <<"Invalid debater response">>)
         ELSE Return(answer.json)

\* mutant: only the first opening of a Debater is stored
GenerateOpeningOnce(d, position, answer) ==
    LET out == GenerateOpeningOutcome(answer) IN
    /\ last = Idle
    /\ debater' = IF out.status = "returned" /\ debater[d].opening_argument = None
                  THEN [debater EXCEPT ![d] = StoreOpening(debater[d], out.value)]
                  ELSE debater
    /\ last' = Call("generate_opening", d, position, EmptyDict, answer,
                    OpeningPrompt(position), 1, out)
\* mutant: the answer is stored as soon as it has come, before it is validated
GenerateOpeningStoresUnchecked(d, position, answer) ==
    LET out == GenerateOpeningOutcome(answer) IN
    /\ last = Idle
    /\ debater' = IF answer.ok
                  THEN [debater EXCEPT ![d] =
                           [position |-> Get(answer.json, "position", NoneStr),
                            opening_argument |-> answer.json]]
                  ELSE debater
    /\ last' = Call("generate_opening", d, position, EmptyDict, answer,
                    OpeningPrompt(position), 1, out)
GenerateOpening(d, position, answer) ==
    LET out == GenerateOpeningOutcome(answer) IN
    /\ last = Idle
    /\ debater' = IF out.status = "returned"
                  THEN [debater EXCEPT ![d] = StoreOpening(debater[d], out.value)]
                  ELSE debater
    /\ last' = Call("generate_opening", d, position, EmptyDict, answer,
                    OpeningPrompt(position), 1, out)

\* mutant: the guard on the stored opening is missing
HasOpeningUnchecked(self) == TRUE

\* generate_rebuttal line 80, generate_rebuttal_irac line 164
HasOpening(self) == Truthy(self.opening_argument)
MustOpenFirst == Raise("ValueError", <<"Must generate opening argument before rebuttal">>)

\* generate_rebuttal, lines 93-95
ValidRebuttal(response) == Has(response, "rebuttal")

GenerateRebuttalOutcome(self, answer) ==
    IF ~HasOpening(self) THEN MustOpenFirst
    ELSE IF ~answer.ok THEN GenerationError
    ELSE IF ~ValidRebuttal(answer.json)
         THEN Raise("ValueError", <<"Invalid rebuttal response">>)
         ELSE Return(answer.json)

\* mutant: a returned rebuttal is stored where the opening is kept
GenerateRebuttalStoresRebuttal(d, opponent_opening, answer) ==
    LET self == debater[d]
        called == HasOpening(self)
        out == GenerateRebuttalOutcome(self, answer)
    IN
    /\ last = Idle
    /\ debater' = IF out.status = "returned"
                  THEN [debater EXCEPT ![d].opening_argument = out.value]
                  ELSE debater
    /\ last' = Call("generate_rebuttal", d, NoneStr, opponent_opening, answer,
                    IF called
                    THEN RebuttalPrompt(self.position, self.opening_argument, opponent_opening)
                    ELSE EmptyDict,
                    IF called THEN 1 ELSE 0,
                    out)
GenerateRebuttal(d, opponent_opening, answer) ==
    LET self == debater[d]
        called == HasOpening(self)
    IN
    /\ last = Idle
    /\ debater' = debater
    /\ last' = Call("generate_rebuttal", d, NoneStr, opponent_opening, answer,
                    IF called
                    THEN RebuttalPrompt(self.position, self.opening_argument, opponent_opening)
                    ELSE EmptyDict,
                    IF called THEN 1 ELSE 0,
                    GenerateRebuttalOutcome(self, answer))

\* generate_opening_irac line 120: from src.agents.prompts import get_debater_opening_prompt_irac
OpeningIracImported == "get_debater_opening_prompt_irac" \in PromptsModule
\* generate_rebuttal_irac line 167: from src.agents.prompts import get_debater_rebuttal_prompt_irac
RebuttalIracImported == "get_debater_rebuttal_prompt_irac" \in PromptsModule

\* generate_opening_irac line 137
required_keys == <<"issue", "rule", "application", "conclusion">>
\* generate_rebuttal_irac line 185
expected_keys ==
    <<"issue_critique", "rule_critique", "application_critique", "my_reinforcement">>

GenerateOpeningIracOutcome(answer) ==
    IF ~OpeningIracImported THEN ImportError("get_debater_opening_prompt_irac")
    ELSE IF ~answer.ok THEN GenerationError
    ELSE LET response == answer.json IN
         IF ~Has(response, "position") \/ ~Has(response, "irac")
         THEN Raise("ValueError", <<"Invalid IRAC debater response">>)
         ELSE LET key == FirstMissing(required_keys, Get(response, "irac", EmptyDict)) IN
              IF key # NoneStr
              THEN Raise("ValueError", <<"Missing IRAC component", key>>)
              ELSE Return(response)

GenerateOpeningIrac(d, position, answer) ==
    LET out == GenerateOpeningIracOutcome(answer) IN
    /\ last = Idle
    /\ debater' = IF out.status = "returned"
                  THEN [debater EXCEPT ![d] = StoreOpening(debater[d], out.value)]
                  ELSE debater
    /\ last' = Call("generate_opening_irac", d, position, EmptyDict, answer,
                    IF OpeningIracImported THEN OpeningPrompt(position) ELSE EmptyDict,
                    IF OpeningIracImported THEN 1 ELSE 0, out)

\* the values get_debater_rebuttal_prompt_irac interpolates
RebuttalPromptIrac(my_position, opponent_opening) ==
    [my_position |-> my_position,
     opponent_position |-> Get(opponent_opening, "position", ""),
     opponent_irac |-> [k \in {"issue", "rule", "application", "conclusion"} |->
                            Get(Get(opponent_opening, "irac", EmptyDict), k, "")]]

\* mutant: the import runs before the guard on the stored opening
GenerateRebuttalIracImportFirst(self, answer) ==
    IF ~("get_debater_rebuttal_prompt_irac" \in PromptsModule)
    THEN ImportError("get_debater_rebuttal_prompt_irac")
    ELSE IF ~Truthy(self.opening_argument)
         THEN Raise("ValueError", <<"Must generate opening argument before rebuttal">>)
         ELSE Return(answer.json)

GenerateRebuttalIracOutcome(self, answer) ==
    IF ~HasOpening(self) THEN MustOpenFirst
    ELSE IF ~RebuttalIracImported THEN ImportError("get_debater_rebuttal_prompt_irac")
    ELSE IF ~answer.ok THEN GenerationError
    ELSE LET response == answer.json IN
         IF ~Has(response, "rebuttal")
         THEN Raise("ValueError", <<"Invalid IRAC rebuttal response">>)
         ELSE LET key == FirstMissing(expected_keys, Get(response, "rebuttal", EmptyDict)) IN
              IF key # NoneStr
              THEN Raise("ValueError", <<"Missing rebuttal component", key>>)
              ELSE Return(response)

GenerateRebuttalIrac(d, opponent_opening, answer) ==
    LET self == debater[d]
        called == HasOpening(self) /\ RebuttalIracImported
    IN
    /\ last = Idle
    /\ debater' = debater
    /\ last' = Call("generate_rebuttal_irac", d, NoneStr, opponent_opening, answer,
                    IF called THEN RebuttalPromptIrac(self.position, opponent_opening)
                    ELSE EmptyDict,
                    IF called THEN 1 ELSE 0,
                    GenerateRebuttalIracOutcome(self, answer))

\* what a caller may pass as the opponent's opening: the opponent's stored opening when
\* there is one, or an empty dictionary
OpponentOpeningArgs(d) ==
    {EmptyDict} \cup
    (IF debater[Opponent(d)].opening_argument # None
     THEN {debater[Opponent(d)].opening_argument} ELSE {})

\* no two runs side by side
NoPair == <<>>

\* no run_debate in progress: the methods are called directly
NoRun == [variant |-> "none", state |-> "INIT", outcome |-> NoOutcome, calls |-> <<>>]

\* the caller drops the outcome of the call and is free to call again
CallerDiscards ==
    /\ last # Idle
    /\ last' = Idle
    /\ UNCHANGED <<debater, debate_history, done, run, pair>>

OpeningCall ==
    \E d \in Debaters, position \in PositionArgs :
        \/ \E answer \in VanillaOpeningAnswers : GenerateOpening(d, position, answer)
        \/ \E answer \in IracOpeningAnswers : GenerateOpeningIrac(d, position, answer)
RebuttalCall ==
    \E d \in Debaters :
        \E opponent_opening \in OpponentOpeningArgs(d) :
            \/ \E answer \in VanillaRebuttalAnswers :
                   GenerateRebuttal(d, opponent_opening, answer)
            \/ \E answer \in IracRebuttalAnswers :
                   GenerateRebuttalIrac(d, opponent_opening, answer)

InitDebaters ==
    /\ debater = [d \in Debaters |-> NewDebater]
    /\ debate_history = EmptyDict
    /\ done = {}
    /\ last = Idle
    /\ run = NoRun
    /\ pair = NoPair

\* two Debaters, any sequence of opening and rebuttal calls with any answers
DebaterNext ==
    \/ OpeningCall /\ UNCHANGED <<debate_history, done, run, pair>>
    \/ RebuttalCall /\ UNCHANGED <<debate_history, done, run, pair>>
    \/ CallerDiscards
SpecDebater == InitDebaters /\ [][DebaterNext]_vars

(***************************************************************************)
(* Judge (src/agents/judge_experimental.py)                                *)
(***************************************************************************)
Winners == {"debater_x", "debater_y", "tie"}

\* answers with a text synthesis (the vanilla and hybrid response format)
TextDecisionAnswers ==
    {Failure} \cup
    {Answer(j) : j \in UNION {SubDicts([rationale |-> "t", winner |-> w, decision |-> p,
                                        synthesis |-> "t"], {"rationale"}) :
                              w \in Winners, p \in AnswerPositions}}
\* answers with a structured synthesis (the IRAC response format)
IracDecisionAnswers ==
    {Failure} \cup
    {Answer(j) : j \in UNION {SubDicts([rationale |-> "t", winner |-> w, decision |-> p,
                                        synthesis |-> s], {"rationale"}) :
                              w \in Winners, p \in AnswerPositions, s \in IracShapes}}

\* debate_history.get(side, {}).get('opening', {}).get('position', '')
OpeningPosition(history, side) ==
    Get(Get(Get(history, side, EmptyDict), "opening", EmptyDict), "position", "")

\* the values the judge prompts interpolate, per side
JudgePrompt(history) ==
    [side \in Debaters |->
        LET entry == Get(history, side, EmptyDict)
            opening == Get(entry, "opening", EmptyDict)
        IN [position |-> Get(opening, "position", ""),
            has_argument |-> Has(opening, "argument"),
            has_irac |-> Has(opening, "irac"),
            has_rebuttal |-> Has(Get(entry, "rebuttal", EmptyDict), "rebuttal")]]

\* mutant: the label of the decision is not checked
DecisionErrorPresenceOnly(response) ==
    IF ~Has(response, "decision") THEN <<"Invalid judge response">> ELSE <<>>
\* lines 55-60, 101-106, 155-160: the decision field is present and one of the four labels
DecisionError(response) ==
    IF ~Has(response, "decision") THEN <<"Invalid judge response">>
    ELSE IF response["decision"] \notin Labels
         THEN <<"Invalid decision choice", response["decision"]>>
         ELSE <<>>

\* mutant: the vanilla decision carries the winner check of the hybrid one
MakeDecisionCrossChecked(answer) ==
    IF ~answer.ok THEN GenerationError
    ELSE IF DecisionError(answer.json) # <<>>
         THEN Raise("ValueError", DecisionError(answer.json))
         ELSE IF Get(answer.json, "winner", "") \in Debaters
                 /\ answer.json["decision"] #
                        OpeningPosition(debate_history, Get(answer.json, "winner", ""))
         THEN Raise("ValueError", <<"Decision doesn't match winner's position">>)
         ELSE Return(answer.json)
MakeDecisionOutcome(answer) ==
    IF ~answer.ok THEN GenerationError
    ELSE IF DecisionError(answer.json) # <<>>
         THEN Raise("ValueError", DecisionError(answer.json))
         ELSE Return(answer.json)

MakeDecision(answer) ==
    /\ last = Idle
    /\ debater' = debater
    /\ debate_history' = debate_history
    /\ last' = Call("make_decision", "judge", NoneStr, EmptyDict, answer,
                    JudgePrompt(debate_history), 1, MakeDecisionOutcome(answer))

\* make_decision_irac line 89: from src.agents.prompts_experimental import ...
JudgeIracImported == "get_judge_decision_prompt_irac" \in PromptsExperimentalModule
\* make_decision_hybrid line 143: from src.agents.prompts_experimental import ...
JudgeHybridImported == "get_judge_decision_prompt_hybrid" \in PromptsExperimentalModule

\* mutant: the conclusion is not required
synthesis_keys_without_conclusion == <<"issue", "rule", "application">>
\* make_decision_irac line 113
synthesis_keys == <<"issue", "rule", "application", "conclusion">>

\* mutant: the decision handed back keeps only the decision, the winner and the synthesis
MakeDecisionIracTrimmed(answer) ==
    IF ~JudgeIracImported THEN ImportError("get_judge_decision_prompt_irac")
    ELSE IF ~answer.ok THEN GenerationError
    ELSE LET response == answer.json IN
         IF DecisionError(response) # <<>>
         THEN Raise("ValueError", DecisionError(response))
         ELSE IF ~Has(response, "synthesis")
         THEN Raise("ValueError", <<"Missing synthesis in judge IRAC response">>)
         ELSE LET key == FirstMissing(synthesis_keys, Get(response, "synthesis", EmptyDict)) IN
              IF key # NoneStr
              THEN Raise("ValueError", <<"Missing synthesis IRAC component", key>>)
              ELSE Return(Restrict(response, {"decision", "winner", "synthesis"}))
MakeDecisionIracOutcome(answer) ==
    IF ~JudgeIracImported THEN ImportError("get_judge_decision_prompt_irac")
    ELSE IF ~answer.ok THEN GenerationError
    ELSE LET response == answer.json IN
         IF DecisionError(response) # <<>>
         THEN Raise("ValueError", DecisionError(response))
         ELSE IF ~Has(response, "synthesis")
         THEN Raise("ValueError", <<"Missing synthesis in judge IRAC response">>)
         ELSE LET key == FirstMissing(synthesis_keys, Get(response, "synthesis", EmptyDict)) IN
              IF key # NoneStr
              THEN Raise("ValueError", <<"Missing synthesis IRAC component", key>>)
              ELSE Return(response)

MakeDecisionIrac(answer) ==
    /\ last = Idle
    /\ debater' = debater
    /\ debate_history' = debate_history
    /\ last' = Call("make_decision_irac", "judge", NoneStr, EmptyDict, answer,
                    IF JudgeIracImported THEN JudgePrompt(debate_history) ELSE EmptyDict,
                    IF JudgeIracImported THEN 1 ELSE 0,
                    MakeDecisionIracOutcome(answer))

\* mutant: a mismatch is reported with the message of an invalid decision label
WinnerMismatchAsInvalidChoice(response, history) ==
    LET winner == Get(response, "winner", "") IN
    IF winner \in Debaters /\ response["decision"] # OpeningPosition(history, winner)
    THEN <<"Invalid decision choice", response["decision"]>>
    ELSE <<>>
\* mutant: the debater_y branch of the check is missing
WinnerMismatchOnlyX(response, history) ==
    IF Get(response, "winner", "") = "debater_x"
       /\ response["decision"] # Get(Get(Get(history, "debater_x", EmptyDict), "opening", EmptyDict), "position", "")
    THEN <<"Decision doesn't match winner's position", "debater_x">>
    ELSE <<>>

\* make_decision_hybrid lines 162-174: the winner's position against the decision
WinnerMismatch(response, history) ==
    LET winner == Get(response, "winner", "")
        debater_x_pos == OpeningPosition(history, "debater_x")
        debater_y_pos == OpeningPosition(history, "debater_y")
    IN IF winner = "debater_x" /\ response["decision"] # debater_x_pos
       THEN <<"Decision doesn't match winner's position", "debater_x">>
       ELSE IF winner = "debater_y" /\ response["decision"] # debater_y_pos
       THEN <<"Decision doesn't match winner's position", "debater_y">>
       ELSE <<>>

\* mutant: the winner is compared with the decision before the label is checked
MakeDecisionHybridConsistencyFirst(history, answer) ==
    IF ~JudgeHybridImported THEN ImportError("get_judge_decision_prompt_hybrid")
    ELSE IF ~answer.ok THEN GenerationError
    ELSE LET response == answer.json IN
         IF ~Has(response, "decision")
         THEN Raise("ValueError", <<"Invalid judge response">>)
         ELSE IF WinnerMismatch(response, history) # <<>>
         THEN Raise("ValueError", WinnerMismatch(response, history))
         ELSE IF DecisionError(response) # <<>>
         THEN Raise("ValueError", DecisionError(response))
         ELSE Return(response)
\* mutant: the hybrid decision reads the rebuttal of each side with ['rebuttal']
MakeDecisionHybridNeedsRebuttals(history, answer) ==
    IF ~JudgeHybridImported THEN ImportError("get_judge_decision_prompt_hybrid")
    ELSE IF \E side \in Debaters : ~Has(Get(history, side, EmptyDict), "rebuttal")
    THEN Raise("KeyError", <<"rebuttal">>)
    ELSE IF ~answer.ok THEN GenerationError
    ELSE LET response == answer.json IN
         IF DecisionError(response) # <<>>
         THEN Raise("ValueError", DecisionError(response))
         ELSE IF WinnerMismatch(response, history) # <<>>
         THEN Raise("ValueError", WinnerMismatch(response, history))
         ELSE Return(response)
MakeDecisionHybridOutcome(history, answer) ==
    IF ~JudgeHybridImported THEN ImportError("get_judge_decision_prompt_hybrid")
    ELSE IF ~answer.ok THEN GenerationError
    ELSE LET response == answer.json IN
         IF DecisionError(response) # <<>>
         THEN Raise("ValueError", DecisionError(response))
         ELSE IF WinnerMismatch(response, history) # <<>>
         THEN Raise("ValueError", WinnerMismatch(response, history))
         ELSE Return(response)

\* mutant: the judge gives the transcript an entry for each side before reading it
MakeDecisionHybridFillsTranscript(answer) ==
    /\ last = Idle
    /\ debater' = debater
    /\ debate_history' = [side \in Debaters |-> Get(debate_history, side, EmptyDict)]
    /\ last' = Call("make_decision_hybrid", "judge", NoneStr, EmptyDict, answer,
                    IF JudgeHybridImported THEN JudgePrompt(debate_history) ELSE EmptyDict,
                    IF JudgeHybridImported THEN 1 ELSE 0,
                    MakeDecisionHybridOutcome(debate_history, answer))
MakeDecisionHybrid(answer) ==
    /\ last = Idle
    /\ debater' = debater
    /\ debate_history' = debate_history
    /\ last' = Call("make_decision_hybrid", "judge", NoneStr, EmptyDict, answer,
                    IF JudgeHybridImported THEN JudgePrompt(debate_history) ELSE EmptyDict,
                    IF JudgeHybridImported THEN 1 ELSE 0,
                    MakeDecisionHybridOutcome(debate_history, answer))

DecisionCall ==
    \/ \E answer \in TextDecisionAnswers : MakeDecision(answer)
    \/ \E answer \in IracDecisionAnswers : MakeDecisionIrac(answer)
    \/ \E answer \in TextDecisionAnswers : MakeDecisionHybrid(answer)

(***************************************************************************)
(* The Judge alone, on any transcript                                      *)
(***************************************************************************)
\* the openings a transcript may hold: free-form or IRAC, with a position or without
TranscriptOpenings ==
    UNION {SubDicts([position |-> p, argument |-> "t", citations |-> Citations],
                    {"argument", "citations"}) : p \in AnswerPositions}
    \cup {[position |-> p, irac |-> IracFull, citations |-> Citations] : p \in {"A", "B"}}
TranscriptRebuttals ==
    {[rebuttal |-> "t", counterarguments |-> <<"p">>, citations |-> Citations]}
\* one side's entry: any sub-dictionary of {opening, rebuttal}
TranscriptEntries ==
    UNION {SubDicts([opening |-> o, rebuttal |-> r], {}) :
           o \in TranscriptOpenings, r \in TranscriptRebuttals}
\* a transcript: any sub-dictionary of {debater_x, debater_y}
Transcripts ==
    UNION {SubDicts([debater_x |-> x, debater_y |-> y], {}) :
           x \in TranscriptEntries, y \in TranscriptEntries}

InitJudge ==
    /\ debater = [d \in Debaters |-> NewDebater]
    /\ debate_history \in Transcripts
    /\ done = {}
    /\ last = Idle
    /\ run = NoRun
    /\ pair = NoPair

JudgeNext ==
    \/ DecisionCall /\ UNCHANGED <<done, run, pair>>
    \/ CallerDiscards
SpecJudge == InitJudge /\ [][JudgeNext]_vars

(***************************************************************************)
(* A debate run: two Debaters and one Judge, called in any order.  The     *)
(* caller keeps the transcript: it files each returned opening and         *)
(* rebuttal under the side that produced it.                               *)
(***************************************************************************)
OpeningOps == {"generate_opening", "generate_opening_irac"}
RebuttalOps == {"generate_rebuttal", "generate_rebuttal_irac"}
DecisionOps == {"make_decision", "make_decision_irac", "make_decision_hybrid"}

\* the phase of the run a method belongs to
Phase(op) ==
    IF op \in OpeningOps THEN "opening"
    ELSE IF op \in RebuttalOps THEN "rebuttal" ELSE "decision"

\* history[side][field] = v
RecordEntry(history, side, field, v) ==
    SetKey(history, side, SetKey(Get(history, side, EmptyDict), field, v))

\* the transcript after the caller has filed the outcome of the call in flight
Filed ==
    IF Returned /\ last.op \in OpeningOps \cup RebuttalOps
    THEN RecordEntry(debate_history, last.who, Phase(last.op), last.outcome.value)
    ELSE debate_history

CallerRecords ==
    /\ last # Idle
    /\ debate_history' = Filed
    /\ done' = IF Returned THEN done \cup {<<last.who, Phase(last.op)>>} ELSE done
    /\ last' = Idle
    /\ UNCHANGED <<debater, run, pair>>

Init == InitDebaters

Next ==
    \/ OpeningCall /\ UNCHANGED <<debate_history, done, run, pair>>
    \/ RebuttalCall /\ UNCHANGED <<debate_history, done, run, pair>>
    \/ DecisionCall /\ UNCHANGED <<done, run, pair>>
    \/ CallerRecords
Spec == Init /\ [][Next]_vars

(***************************************************************************)
(* run_debate(question, context, choices, variant, position_policy): the   *)
(* five phases in their fixed order, each result filed in the transcript,  *)
(* a failure of any phase raised to the caller of the run                  *)
(***************************************************************************)
Variants == {"vanilla", "irac", "hybrid"}

\* the methods a variant uses: hybrid is IRAC openings, vanilla rebuttals, hybrid judge
OpeningOf(variant) == IF variant = "vanilla" THEN "generate_opening" ELSE "generate_opening_irac"
RebuttalOf(variant) == IF variant = "irac" THEN "generate_rebuttal_irac" ELSE "generate_rebuttal"
DecisionOf(variant) ==
    IF variant = "vanilla" THEN "make_decision"
    ELSE IF variant = "irac" THEN "make_decision_irac" ELSE "make_decision_hybrid"

\* the state of the run after the phase a state is waiting for has succeeded
NextState(state) ==
    CASE state = "INIT" -> "X_OPENED"
      [] state = "X_OPENED" -> "Y_OPENED"
      [] state = "Y_OPENED" -> "X_REBUTTED"
      [] state = "X_REBUTTED" -> "Y_REBUTTED"
      [] state = "Y_REBUTTED" -> "DECIDED"

\* Debater(X).opening, then Debater(Y).opening
RunOpens ==
    /\ run.variant \in Variants
    /\ run.state \in {"INIT", "X_OPENED"}
    /\ LET d == IF run.state = "INIT" THEN "debater_x" ELSE "debater_y" IN
       \E position \in PositionArgs :
          IF OpeningOf(run.variant) = "generate_opening"
          THEN \E answer \in VanillaOpeningAnswers : GenerateOpening(d, position, answer)
          ELSE \E answer \in IracOpeningAnswers : GenerateOpeningIrac(d, position, answer)
    /\ UNCHANGED <<debate_history, done, run, pair>>

\* Debater(X).rebuttal using Y's opening, then Debater(Y).rebuttal using X's opening
RunRebuts ==
    /\ run.variant \in Variants
    /\ run.state \in {"Y_OPENED", "X_REBUTTED"}
    /\ LET d == IF run.state = "Y_OPENED" THEN "debater_x" ELSE "debater_y"
           opponent_opening == debate_history[Opponent(d)]["opening"]
       IN IF RebuttalOf(run.variant) = "generate_rebuttal"
          THEN \E answer \in VanillaRebuttalAnswers :
                   GenerateRebuttal(d, opponent_opening, answer)
          ELSE \E answer \in IracRebuttalAnswers :
                   GenerateRebuttalIrac(d, opponent_opening, answer)
    /\ UNCHANGED <<debate_history, done, run, pair>>

\* Judge.decide(transcript)
RunDecides ==
    /\ run.variant \in Variants
    /\ run.state = "Y_REBUTTED"
    /\ CASE DecisionOf(run.variant) = "make_decision" ->
              \E answer \in TextDecisionAnswers : MakeDecision(answer)
         [] DecisionOf(run.variant) = "make_decision_irac" ->
              \E answer \in IracDecisionAnswers : MakeDecisionIrac(answer)
         [] DecisionOf(run.variant) = "make_decision_hybrid" ->
              \E answer \in TextDecisionAnswers : MakeDecisionHybrid(answer)
    /\ UNCHANGED <<done, run, pair>>

\* the requests made to the client in this run so far, in their order, each with the
\* method that made it and what that method was given (the opponent's opening for a
\* rebuttal, the transcript for the decision)
Logged ==
    IF last.calls = 0 THEN run.calls
    ELSE Append(run.calls,
                [who |-> last.who, op |-> last.op,
                 given |-> IF last.op \in DecisionOps THEN debate_history
                           ELSE last.opponent_opening])

\* mutant: a failed phase is skipped and the run goes on with what it has
RunTakesBestEffort ==
    /\ last # Idle
    /\ run.variant \in Variants
    /\ debate_history' = Filed
    /\ done' = IF Returned THEN done \cup {<<last.who, Phase(last.op)>>} ELSE done
    /\ run' = IF NextState(run.state) = "DECIDED" /\ Returned
              THEN [run EXCEPT !.state = "DECIDED",
                               !.outcome = Return([transcript |-> debate_history,
                                                   decision |-> last.outcome.value])]
              ELSE IF NextState(run.state) = "DECIDED"
              THEN [run EXCEPT !.state = "ABORTED", !.outcome = last.outcome]
              ELSE [run EXCEPT !.state = NextState(run.state), !.calls = Logged]
    /\ last' = Idle
    /\ UNCHANGED <<debater, pair>>

\* the phase called has come back: its result is filed and the run moves on, the
\* decision ends the run with {transcript, decision}, a failure ends it as raised
RunTakes ==
    /\ last # Idle
    /\ run.variant \in Variants
    /\ debate_history' = Filed
    /\ done' = IF Returned THEN done \cup {<<last.who, Phase(last.op)>>} ELSE done
    /\ run' = IF ~Returned
              THEN [run EXCEPT !.state = "ABORTED", !.outcome = last.outcome,
                               !.calls = Logged]
              ELSE IF NextState(run.state) = "DECIDED"
              THEN [run EXCEPT !.state = "DECIDED",
                               !.outcome = Return([transcript |-> debate_history,
                                                   decision |-> last.outcome.value]),
                               !.calls = Logged]
              ELSE [run EXCEPT !.state = NextState(run.state), !.calls = Logged]
    /\ last' = Idle
    /\ UNCHANGED <<debater, pair>>

InitRun ==
    /\ debater = [d \in Debaters |-> NewDebater]
    /\ debate_history = EmptyDict
    /\ done = {}
    /\ last = Idle
    /\ run \in {[variant |-> v, state |-> "INIT", outcome |-> NoOutcome, calls |-> <<>>] :
                   v \in Variants}
    /\ pair = NoPair

RunNext ==
    \/ RunOpens
    \/ RunRebuts
    \/ RunDecides
    \/ RunTakes
SpecRun == InitRun /\ [][RunNext]_vars

(***************************************************************************)
(* Two runs, each with its own Debaters and its own Judge, their phases    *)
(* interleaved in any way                                                  *)
(***************************************************************************)
RunIds == {"run_1", "run_2"}

\* a run at its start: Debater.__init__ for both sides, an empty transcript
NewRun(variant) ==
    [variant |-> variant, state |-> "INIT", outcome |-> NoOutcome,
     debater |-> [d \in Debaters |-> NewDebater], debate_history |-> EmptyDict]

\* what the client may answer in a phase of a run
PairAnswers(rn) ==
    {Failure} \cup
    (IF rn.state \in {"INIT", "X_OPENED"}
     THEN IF OpeningOf(rn.variant) = "generate_opening"
          THEN {Answer([position |-> p, argument |-> "t", citations |-> Citations]) :
                   p \in {"A", "B"}}
          ELSE {Answer([position |-> "A", irac |-> IracFull, citations |-> Citations])}
     ELSE IF rn.state \in {"Y_OPENED", "X_REBUTTED"}
     THEN IF RebuttalOf(rn.variant) = "generate_rebuttal"
          THEN {Answer([rebuttal |-> "t", counterarguments |-> <<"p">>,
                        citations |-> Citations])}
          ELSE {Answer([rebuttal |-> CritiqueFull, citations |-> Citations])}
     ELSE IF DecisionOf(rn.variant) = "make_decision_irac"
          THEN {Answer([rationale |-> "t", winner |-> "debater_x", decision |-> "A",
                        synthesis |-> IracFull])}
          ELSE {Answer([rationale |-> "t", winner |-> w, decision |-> "A",
                        synthesis |-> "t"]) : w \in Debaters})

\* the outcome of the method the run is at, on its own Debaters and transcript
PhaseOutcome(rn, answer) ==
    LET side == IF rn.state \in {"INIT", "Y_OPENED"} THEN "debater_x" ELSE "debater_y"
        self == rn.debater[side]
    IN IF rn.state \in {"INIT", "X_OPENED"}
       THEN IF OpeningOf(rn.variant) = "generate_opening"
            THEN GenerateOpeningOutcome(answer) ELSE GenerateOpeningIracOutcome(answer)
       ELSE IF rn.state \in {"Y_OPENED", "X_REBUTTED"}
       THEN IF RebuttalOf(rn.variant) = "generate_rebuttal"
            THEN GenerateRebuttalOutcome(self, answer)
            ELSE GenerateRebuttalIracOutcome(self, answer)
       ELSE IF DecisionOf(rn.variant) = "make_decision" THEN MakeDecisionOutcome(answer)
       ELSE IF DecisionOf(rn.variant) = "make_decision_irac"
            THEN MakeDecisionIracOutcome(answer)
            ELSE MakeDecisionHybridOutcome(rn.debate_history, answer)

\* the run after the phase it is at has been called with this answer of the client
RunPhase(rn, answer) ==
    LET side == IF rn.state \in {"INIT", "Y_OPENED"} THEN "debater_x" ELSE "debater_y"
        out == PhaseOutcome(rn, answer)
    IN IF out.status # "returned"
       THEN [rn EXCEPT !.state = "ABORTED", !.outcome = out]
       ELSE IF rn.state \in {"INIT", "X_OPENED"}
       THEN [rn EXCEPT !.state = NextState(rn.state),
                       !.debater[side] = StoreOpening(rn.debater[side], out.value),
                       !.debate_history = RecordEntry(rn.debate_history, side, "opening",
                                                      out.value)]
       ELSE IF rn.state \in {"Y_OPENED", "X_REBUTTED"}
       THEN [rn EXCEPT !.state = NextState(rn.state),
                       !.debate_history = RecordEntry(rn.debate_history, side, "rebuttal",
                                                      out.value)]
       ELSE [rn EXCEPT !.state = "DECIDED",
                       !.outcome = Return([transcript |-> rn.debate_history,
                                           decision |-> out.value])]

NotAsked == [asked |-> FALSE]

\* a run asks the client for its next phase; the answer is on its way
PairCalls(r) ==
    /\ pair[r].rn.state \notin {"DECIDED", "ABORTED"}
    /\ pair[r].pending = NotAsked
    /\ \E answer \in PairAnswers(pair[r].rn) :
           pair' = [pair EXCEPT ![r].pending = [asked |-> TRUE, answer |-> answer]]
    /\ UNCHANGED <<debater, debate_history, done, last, run>>

\* mutant: position and opening_argument are kept in one place for all Debaters of a side
PairReturnsShared(r) ==
    /\ pair[r].pending # NotAsked
    /\ LET after == RunPhase(pair[r].rn, pair[r].pending.answer) IN
       pair' = [q \in RunIds |->
                   IF q = r
                   THEN [rn |-> after, pending |-> NotAsked,
                         inputs |-> Append(pair[r].inputs, pair[r].pending.answer)]
                   ELSE [pair[q] EXCEPT !.rn.debater = after.debater]]
    /\ UNCHANGED <<debater, debate_history, done, last, run>>

\* the answer has come: the phase ends on the run's own Debaters, Judge and transcript
PairReturns(r) ==
    /\ pair[r].pending # NotAsked
    /\ pair' = [pair EXCEPT ![r] =
                   [rn |-> RunPhase(pair[r].rn, pair[r].pending.answer),
                    pending |-> NotAsked,
                    inputs |-> Append(pair[r].inputs, pair[r].pending.answer)]]
    /\ UNCHANGED <<debater, debate_history, done, last, run>>

InitPair ==
    /\ debater = [d \in Debaters |-> NewDebater]
    /\ debate_history = EmptyDict
    /\ done = {}
    /\ last = Idle
    /\ run = NoRun
    /\ pair \in [RunIds -> {[rn |-> NewRun(v), pending |-> NotAsked, inputs |-> <<>>] :
                                v \in Variants}]

PairNext ==
    \/ \E r \in RunIds : PairCalls(r)
    \/ \E r \in RunIds : PairReturns(r)
SpecPair == InitPair /\ [][PairNext]_vars

(***************************************************************************)
(* evaluate_with_llm_judge (src/evaluation/llm_judge.py)                   *)
(* A score is a number of thousandths of a point; a returned score is a    *)
(* number of hundredths (round(x, 2)), normalized a number of ten-         *)
(* thousandths (round(x, 4)).                                              *)
(***************************************************************************)
\* lines 131-133 and 136: the ranges of the three scores, the maximum of their sum
max_correctness == 4
max_reasoning == 3
max_citations == 4
max_total == 11

\* a value of a field of the answer: a number float() accepts, or one it raises on
Num(thousandths) == [number |-> TRUE, thousandths |-> thousandths]
NotANumber == [number |-> FALSE]
ScoreValues == {Num(v) : v \in {0 - 1000, 0, 1004, 3000, 4000, 5000}} \cup {NotANumber}

\* the answers of the client to the evaluation prompt: a failure, or a JSON object
\* with any of the three scores and a justification
LlmJudgeAnswers ==
    {Failure} \cup
    {Answer(j) : j \in UNION {SubDicts([correctness |-> c, reasoning |-> r, citations |-> ci,
                                        justification |-> "t"], {}) :
                              c \in ScoreValues, r \in ScoreValues, ci \in ScoreValues}}
Texts == {"", "t"}

\* mutant: a score is limited from above only
ClampAbove(x, hi) == IF x > hi * 1000 THEN hi * 1000 ELSE x

\* max(0.0, min(hi, x))
Clamp(x, hi) ==
    LET low == IF hi * 1000 < x THEN hi * 1000 ELSE x
    IN IF low > 0 THEN low ELSE 0

\* round(): the multiple of unit nearest to x >= 0, counted in units; a tie goes to the even one
Round(x, unit) ==
    LET q == x \div unit
        r == x % unit
    IN IF 2 * r < unit THEN q
       ELSE IF 2 * r > unit THEN q + 1
       ELSE IF q % 2 = 0 THEN q ELSE q + 1

\* lines 40-47 and 149-156: all scores zero
ZeroScores(justification) ==
    [correctness |-> 0, reasoning |-> 0, citations |-> 0, total |-> 0, normalized |-> 0,
     justification |-> justification]

\* lines 116-156: the scores from the answer of the client
ScoresFrom(answer) ==
    IF ~answer.ok THEN ZeroScores("Error")
    ELSE LET response == answer.json
             c == Get(response, "correctness", Num(0))
             r == Get(response, "reasoning", Num(0))
             ci == Get(response, "citations", Num(0))
         IN IF ~c.number \/ ~r.number \/ ~ci.number THEN ZeroScores("Error")
            ELSE LET correctness == Clamp(c.thousandths, max_correctness)
                     reasoning == Clamp(r.thousandths, max_reasoning)
                     citations == Clamp(ci.thousandths, max_citations)
                     total == correctness + reasoning + citations
                 IN [correctness |-> Round(correctness, 10),
                     reasoning |-> Round(reasoning, 10),
                     citations |-> Round(citations, 10),
                     total |-> Round(total, 10),
                     normalized |-> Round(total * 10000, max_total * 1000),
                     justification |-> Get(response, "justification", "")]

\* evaluate_with_llm_judge(prediction, reference, question, client), client given
EvaluateWithLlmJudge(prediction, reference, answer) ==
    LET empty == prediction = "" \/ reference = "" IN
    /\ last = Idle
    /\ last' = [op |-> "evaluate_with_llm_judge", prediction |-> prediction,
                reference |-> reference, answer |-> answer,
                calls |-> IF empty THEN 0 ELSE 1,
                outcome |-> IF empty THEN Return(ZeroScores("Empty prediction or reference"))
                            ELSE Return(ScoresFrom(answer))]
    /\ UNCHANGED <<debater, debate_history, done, run, pair>>

LlmJudgeCall ==
    \E prediction \in Texts, reference \in Texts, answer \in LlmJudgeAnswers :
        EvaluateWithLlmJudge(prediction, reference, answer)

LlmJudgeNext ==
    \/ LlmJudgeCall
    \/ CallerDiscards
SpecLlmJudge == InitDebaters /\ [][LlmJudgeNext]_vars

(***************************************************************************)
(* citation_f1 (src/evaluation/automatic_metrics.py)                       *)
(* A citation is a number; precision, recall and f1 are returned as        *)
(* numbers of ten-thousandths (round(x, 4)).                               *)
(***************************************************************************)
MaxLen == 3
LongLen == 40001

\* the lists of citations: every list of up to MaxLen citations out of three, and
\* one long list of LongLen distinct citations
CitationLists == UNION {[1..n -> {1, 2, 3}] : n \in 0..MaxLen}
LongList == [i \in 1..LongLen |-> i]

\* the calls made: any two short lists, or a single predicted citation against the
\* long list as ground truth
CitationInputs ==
    (CitationLists \X CitationLists) \cup {<<<<c>>, LongList>> : c \in {1, 2, 3}}

\* set(predicted), set(expected)
ToSet(list) == {list[i] : i \in DOMAIN list}

\* mutant: every predicted citation counts as matched
MatchedAllPredicted(pred_set, exp_set) == pred_set

\* matched = pred_set & exp_set
Matched(pred_set, exp_set) == pred_set \cap exp_set

\* citation_f1(predicted, expected); precision = m/p, recall = m/e, and
\* 2 * (precision * recall) / (precision + recall) = 2m / (p + e) when m > 0
citation_f1(predicted, expected) ==
    IF predicted = <<>> /\ expected = <<>>
    THEN [precision |-> 10000, recall |-> 10000, f1 |-> 10000,
          predicted_count |-> 0, expected_count |-> 0, matched_count |-> 0]
    ELSE IF predicted = <<>> \/ expected = <<>>
    THEN [precision |-> 0, recall |-> 0, f1 |-> 0,
          predicted_count |-> Len(predicted), expected_count |-> Len(expected),
          matched_count |-> 0]
    ELSE LET pred_set == ToSet(predicted)
             exp_set == ToSet(expected)
             p == Cardinality(pred_set)
             e == Cardinality(exp_set)
             m == Cardinality(Matched(pred_set, exp_set))
         IN [precision |-> Round(m * 10000, p),
             recall |-> Round(m * 10000, e),
             f1 |-> IF m > 0 THEN Round(2 * m * 10000, p + e) ELSE 0,
             predicted_count |-> Len(predicted), expected_count |-> Len(expected),
             matched_count |-> m]

CitationF1Call ==
    /\ last = Idle
    /\ \E input \in CitationInputs :
           LET predicted == input[1]
               expected == input[2]
           IN last' = [op |-> "citation_f1", predicted |-> predicted, expected |-> expected,
                       outcome |-> Return(citation_f1(predicted, expected))]
    /\ UNCHANGED <<debater, debate_history, done, run, pair>>

CitationF1Next ==
    \/ CitationF1Call
    \/ CallerDiscards
SpecCitationF1 == InitDebaters /\ [][CitationF1Next]_vars

\* the run that is given these answers one after the other, with no other run around
RECURSIVE Alone(_, _)
Alone(variant, inputs) ==
    IF inputs = <<>> THEN NewRun(variant)
    ELSE RunPhase(Alone(variant, SubSeq(inputs, 1, Len(inputs) - 1)), inputs[Len(inputs)])

(***************************************************************************)
(* Properties                                                              *)
(***************************************************************************)
\* the failures, told apart by the message of the ValueError the source raises
SchemaFailure ==
    /\ Raised
    /\ last.outcome.type = "ValueError"
    /\ last.outcome.msg[1] \in
         {"Invalid debater response", "Invalid rebuttal response",
          "Invalid IRAC debater response", "Missing IRAC component",
          "Invalid IRAC rebuttal response", "Missing rebuttal component",
          "Invalid judge response", "Invalid decision choice",
          "Missing synthesis in judge IRAC response", "Missing synthesis IRAC component"}
SequenceFailure ==
    /\ Raised
    /\ last.outcome.type = "ValueError"
    /\ last.outcome.msg[1] = "Must generate opening argument before rebuttal"
ConsistencyFailure ==
    /\ Raised
    /\ last.outcome.type = "ValueError"
    /\ last.outcome.msg[1] = "Decision doesn't match winner's position"

\* the position in the opening the transcript holds for a side; "" when there is none
StoredPosition(side) ==
    IF /\ side \in DOMAIN debate_history
       /\ "opening" \in DOMAIN debate_history[side]
       /\ "position" \in DOMAIN debate_history[side]["opening"]
    THEN debate_history[side]["opening"]["position"]
    ELSE ""

\* a hybrid decision call whose answer has a decision among the labels and names a side
HybridSideNamed ==
    /\ last.op = "make_decision_hybrid"
    /\ last.answer.ok
    /\ "decision" \in DOMAIN last.answer.json
    /\ last.answer.json["decision"] \in Labels
    /\ "winner" \in DOMAIN last.answer.json
    /\ last.answer.json["winner"] \in Debaters

\* C1: hybrid decide, answer with a decision among A..D and a winner naming a side: the
\* call fails with the consistency failure exactly when the decision differs from the
\* position in that side's opening, and returns the answer when they are equal.
C1_HybridConsistency ==
    HybridSideNamed =>
        LET json == last.answer.json
            stored == StoredPosition(json["winner"])
        IN /\ ConsistencyFailure <=> json["decision"] # stored
           /\ json["decision"] = stored => Returned /\ last.outcome.value = json

\* C1 witness: x defends A, y defends B, winner debater_x, decision B: rejected
C1_Witness ==
    /\ HybridSideNamed
    /\ StoredPosition("debater_x") = "A"
    /\ StoredPosition("debater_y") = "B"
    /\ last.answer.json["winner"] = "debater_x"
    /\ last.answer.json["decision"] = "B"
    /\ ConsistencyFailure

\* C2: every decision hybrid decide returns names a side as winner and equals the
\* position in that side's opening (as claimed; the source returns answers whose
\* winner is "tie" or absent without any check).
C2_HybridReturnsDefendedPosition ==
    last.op = "make_decision_hybrid" /\ Returned =>
        /\ "winner" \in DOMAIN last.outcome.value
        /\ last.outcome.value["winner"] \in Debaters
        /\ last.outcome.value["decision"] = StoredPosition(last.outcome.value["winner"])

\* C3: a rebuttal call (either variant) on a Debater that has no opening fails with
\* the sequence failure, and the client is not called, whatever its answer would be.
C3_RebuttalBeforeOpening ==
    last.op \in RebuttalOps /\ debater[last.who].opening_argument = None =>
        SequenceFailure /\ last.calls = 0

\* C3 witness: the IRAC rebuttal of a fresh Debater, the client ready with a valid answer
C3_Witness ==
    /\ last.op = "generate_rebuttal_irac"
    /\ debater[last.who] = NewDebater
    /\ last.answer = Answer([rebuttal |-> CritiqueFull, citations |-> Citations])
    /\ SequenceFailure
    /\ last.calls = 0

\* the order of the run's transitions
RunOrder ==
    << <<"debater_x", "opening">>, <<"debater_y", "opening">>,
       <<"debater_x", "rebuttal">>, <<"debater_y", "rebuttal">>,
       <<"judge", "decision">> >>
\* the transitions made when the run is in its i-th state (INIT is the first)
Made(i) == {RunOrder[j] : j \in 1..(i - 1)}

\* C4 (as claimed): every successful call is the next transition of
\* INIT -> X_OPENED -> Y_OPENED -> X_REBUTTED -> Y_REBUTTED -> DECIDED.
C4_StrictOrder ==
    Returned =>
        \E i \in 1..Len(RunOrder) :
            /\ RunOrder[i] = <<last.who, Phase(last.op)>>
            /\ done = Made(i)

\* C4 (amended): the only order the operations enforce is that a Debater's rebuttal
\* succeeds only after that Debater's own opening has succeeded.
C4_RebuttalAfterOwnOpening ==
    Returned /\ last.op \in RebuttalOps => <<last.who, "opening">> \in done

\* C4 witness: X's rebuttal returns in a run where X has opened
C4_Witness ==
    /\ Returned
    /\ last.op = "generate_rebuttal"
    /\ last.who = "debater_x"
    /\ <<"debater_x", "opening">> \in done

\* C5 (as claimed): a rebuttal succeeds only when the opponent has an opening.
C5_OpponentOpenedFirst ==
    Returned /\ last.op \in RebuttalOps =>
        debater[Opponent(last.who)].opening_argument # None

\* C5 (amended): a rebuttal needs the Debater's own opening only; when the opponent
\* has none, the opponent's position and argument are read as empty text.
C5_OwnOpeningOnly ==
    Returned /\ last.op \in RebuttalOps =>
        /\ debater[last.who].opening_argument # None
        /\ debater[Opponent(last.who)].opening_argument = None =>
               /\ last.opponent_opening = EmptyDict
               /\ last.prompt.opponent_position = ""
               /\ last.op = "generate_rebuttal" => last.prompt.opponent_argument = ""

\* C5 witness: a rebuttal returns while the opponent has never opened
C5_Witness ==
    /\ Returned
    /\ last.op = "generate_rebuttal"
    /\ debater[Opponent(last.who)] = NewDebater

\* C6 (as claimed): an opening called with an assigned label returns, and stores,
\* that label as its position (the source stores whatever position the answer carries).
C6_AssignedPositionKept ==
    last.op \in OpeningOps /\ last.position \in Labels /\ Returned =>
        /\ last.outcome.value["position"] = last.position
        /\ debater[last.who].position = last.position

\* C7 (as claimed): a Debater's position is unassigned or one of the four labels.
C7_PositionIsLabel ==
    \A d \in Debaters : debater[d].position \in Labels \cup {NoneStr}

\* an IRAC structure with all four keys
CompleteIrac(irac) == {"issue", "rule", "application", "conclusion"} \subseteq DOMAIN irac

\* C8 (as claimed): IRAC opening, answer with a position and an irac structure: it
\* fails with the schema failure when the structure lacks a key, and returns the
\* answer when all four keys are present (the source fails before it asks the client).
C8_IracOpeningSchema ==
    /\ last.op = "generate_opening_irac"
    /\ last.answer.ok
    /\ {"position", "irac"} \subseteq DOMAIN last.answer.json
    => IF CompleteIrac(last.answer.json["irac"])
       THEN Returned /\ last.outcome.value = last.answer.json
       ELSE SchemaFailure

\* C9 (as claimed): an opening (either variant) whose answer lacks the position fails
\* with the schema failure; a returned opening sets position and opening_argument
\* from the answer.
C9_OpeningPositionRequired ==
    /\ last.op \in OpeningOps /\ last.answer.ok /\ "position" \notin DOMAIN last.answer.json
           => SchemaFailure
    /\ last.op \in OpeningOps /\ Returned
           => /\ debater[last.who].position = last.answer.json["position"]
              /\ debater[last.who].opening_argument = last.answer.json

\* C10 (as claimed): a rebuttal after an opening fails with the schema failure when
\* the answer lacks the rebuttal (vanilla) or one of the four critique keys (IRAC),
\* and returns the answer otherwise.
C10_RebuttalSchema ==
    /\ last.op \in RebuttalOps
    /\ debater[last.who].opening_argument # None
    /\ last.answer.ok
    => LET json == last.answer.json
           wellFormed ==
               /\ "rebuttal" \in DOMAIN json
               /\ last.op = "generate_rebuttal_irac" =>
                      {"issue_critique", "rule_critique", "application_critique",
                       "my_reinforcement"} \subseteq DOMAIN json["rebuttal"]
       IN IF wellFormed THEN Returned /\ last.outcome.value = json ELSE SchemaFailure

\* the failure of a decision call is one of the two checks of the decision field
DecisionFieldFailure ==
    /\ Raised
    /\ last.outcome.type = "ValueError"
    /\ last.outcome.msg[1] \in {"Invalid judge response", "Invalid decision choice"}

\* C11: in every variant a decision call whose answer has no decision, or a decision
\* outside A, B, C, D, fails with the schema failure of the decision field, whatever
\* the winner and the transcript are; a returned decision is one of A, B, C, D.
C11_DecisionLabelRequired ==
    last.op \in DecisionOps /\ last.answer.ok
    => LET json == last.answer.json IN
       /\ ("decision" \notin DOMAIN json \/ json["decision"] \notin {"A", "B", "C", "D"})
              => SchemaFailure /\ DecisionFieldFailure
       /\ Returned => /\ "decision" \in DOMAIN last.outcome.value
                      /\ last.outcome.value["decision"] \in {"A", "B", "C", "D"}

\* a hybrid decision "E" that names debater_x is refused, on a transcript with both openings
C11_Witness ==
    /\ last.op = "make_decision_hybrid"
    /\ last.answer.ok
    /\ "decision" \in DOMAIN last.answer.json
    /\ last.answer.json["decision"] = "E"
    /\ "winner" \in DOMAIN last.answer.json
    /\ last.answer.json["winner"] = "debater_x"
    /\ StoredPosition("debater_x") = "A"
    /\ StoredPosition("debater_y") = "B"
    /\ DecisionFieldFailure

\* the synthesis of an answer has the four parts (their text may be empty)
CompleteSynthesis(json) ==
    /\ "synthesis" \in DOMAIN json
    /\ {"issue", "rule", "application", "conclusion"} \subseteq DOMAIN json["synthesis"]

C13_NoCrossCheck ==
    /\ last.op \in {"make_decision", "make_decision_irac"}
    /\ last.answer.ok
    /\ "decision" \in DOMAIN last.answer.json
    /\ last.answer.json["decision"] \in Labels
    /\ last.op = "make_decision_irac" => CompleteSynthesis(last.answer.json)
    => Returned /\ last.outcome.value = last.answer.json

\* a vanilla decision C for debater_x is returned although the openings hold A and B
C13_Witness ==
    /\ last.op = "make_decision"
    /\ Returned
    /\ "winner" \in DOMAIN last.outcome.value
    /\ last.outcome.value["winner"] = "debater_x"
    /\ last.outcome.value["decision"] = "C"
    /\ StoredPosition("debater_x") = "A"
    /\ StoredPosition("debater_y") = "B"

\* both openings and both rebuttals have been produced and filed
DebateComplete ==
    {<<"debater_x", "opening">>, <<"debater_y", "opening">>,
     <<"debater_x", "rebuttal">>, <<"debater_y", "rebuttal">>} \subseteq done

\* the answer passes the validation of the variant called
PassesValidation ==
    LET json == last.answer.json IN
    /\ last.answer.ok
    /\ "decision" \in DOMAIN json
    /\ json["decision"] \in Labels
    /\ last.op = "make_decision_irac" => CompleteSynthesis(json)
    /\ last.op = "make_decision_hybrid" /\ "winner" \in DOMAIN json /\ json["winner"] \in Debaters
           => json["decision"] = StoredPosition(json["winner"])

\* C14: after both openings and both rebuttals, a decision call of any variant whose
\* answer passes validation returns that answer: the same fields with the same values.
C14_DecisionReturnedAsAnswered ==
    last.op \in DecisionOps /\ DebateComplete /\ PassesValidation
    => /\ Returned
       /\ DOMAIN last.outcome.value = DOMAIN last.answer.json
       /\ \A k \in DOMAIN last.answer.json : last.outcome.value[k] = last.answer.json[k]

\* the end-to-end case: X holds A, Y holds B, all four turns are filed, and an IRAC
\* decision A for debater_x with a complete synthesis comes back
C14_Witness ==
    /\ DebateComplete
    /\ debater["debater_x"].position = "A"
    /\ debater["debater_y"].position = "B"
    /\ StoredPosition("debater_x") = "A"
    /\ StoredPosition("debater_y") = "B"
    /\ last.op = "make_decision_irac"
    /\ Returned
    /\ last.outcome.value["decision"] = "A"
    /\ "winner" \in DOMAIN last.outcome.value
    /\ last.outcome.value["winner"] = "debater_x"

\* C16: every Debater and Judge operation asks the client at most once; when the
\* client fails, the operation fails with the client's error as it is: no second
\* request is made and no default result is put in its place.
C16_OneCallErrorPropagates ==
    last.op \in OpeningOps \cup RebuttalOps \cup DecisionOps
    => /\ last.calls \in {0, 1}
       /\ last.calls = 1 /\ ~last.answer.ok
              => /\ last.outcome.status = "raised"
                 /\ last.outcome.type = "GenerationError"
                 /\ last.outcome = GenerationError

\* a rebuttal after an own opening whose one request to the client failed
C16_Witness ==
    /\ last.op = "generate_rebuttal"
    /\ debater[last.who].opening_argument # None
    /\ ~last.answer.ok
    /\ last.calls = 1
    /\ last.outcome.status = "raised"
    /\ last.outcome.type = "GenerationError"

\* C17: once a phase of a run has failed the run is over: the failure is what the
\* run gives its caller, no later phase is called, the run never gets to DECIDED and
\* never hands out a transcript or a decision.
C17_FailureAbortsRun ==
    [][/\ Raised => run'.state = "ABORTED" /\ run'.outcome = last.outcome
       /\ run.state = "ABORTED" => /\ run.outcome.status = "raised"
                                   /\ run' = run
                                   /\ last' = last
                                   /\ debate_history' = debate_history
                                   /\ done' = done]_vars

\* a vanilla run that failed after both openings had succeeded
C17_Witness ==
    /\ run.variant = "vanilla"
    /\ run.state = "ABORTED"
    /\ run.outcome.status = "raised"
    /\ {<<"debater_x", "opening">>, <<"debater_y", "opening">>} \subseteq done
    /\ <<"judge", "decision">> \notin done
    /\ last = Idle

\* the failures a hybrid decision call raises for a malformed answer: no decision
\* field, or a decision that is no label
MalformedFailures ==
    {MakeDecisionHybridOutcome(debate_history, a) :
        a \in {b \in TextDecisionAnswers :
                  /\ b.ok
                  /\ "decision" \in DOMAIN b.json => b.json["decision"] \notin Labels}}

\* a hybrid decision call whose well-formed answer names a side that holds another position
WinnerDisagrees ==
    /\ last.op = "make_decision_hybrid"
    /\ last.answer.ok
    /\ "decision" \in DOMAIN last.answer.json
    /\ last.answer.json["decision"] \in Labels
    /\ "winner" \in DOMAIN last.answer.json
    /\ last.answer.json["winner"] \in Debaters
    /\ last.answer.json["decision"] # StoredPosition(last.answer.json["winner"])

\* C18 (as claimed): the failure of a hybrid decision on a winner disagreement is of
\* another kind than the failure for a malformed answer, so that the kind of the
\* error alone tells the two apart.
C18_DistinctKind ==
    WinnerDisagrees
    => /\ Raised
       /\ \A f \in MalformedFailures : last.outcome.type # f.type

\* C18 (amended): the failure on a winner disagreement has the kind of the failure
\* for a malformed answer (both are ValueError); only the message tells them apart.
C18_DistinctMessageOnly ==
    WinnerDisagrees
    => /\ Raised
       /\ \A f \in MalformedFailures :
              /\ f.status = "raised"
              /\ last.outcome.type = f.type
              /\ last.outcome.msg[1] # f.msg[1]

\* decision B for debater_x, whose opening holds A, is refused
C18_Witness ==
    /\ WinnerDisagrees
    /\ last.answer.json["winner"] = "debater_x"
    /\ last.answer.json["decision"] = "B"
    /\ StoredPosition("debater_x") = "A"
    /\ StoredPosition("debater_y") = "B"
    /\ last.outcome.type = "ValueError"

\* C19: a decision call of any variant, returned or raised, leaves the transcript
\* it was given and the position and opening_argument of both Debaters as they were.
C19_DecideWritesNothing ==
    [][last'.op \in DecisionOps /\ last.op = "idle"
       => /\ debate_history' = debate_history
          /\ \A d \in Debaters :
                 /\ debater'[d].position = debater[d].position
                 /\ debater'[d].opening_argument = debater[d].opening_argument]_vars

\* a hybrid decision call has failed for a winner mismatch on a transcript that
\* holds both openings and the rebuttal of debater_x
C19_Witness ==
    /\ last.op = "make_decision_hybrid"
    /\ ConsistencyFailure
    /\ DOMAIN debate_history = Debaters
    /\ StoredPosition("debater_x") \in Labels
    /\ <<"debater_x", "rebuttal">> \in done
    /\ \A d \in Debaters : debater[d].opening_argument # None

\* C20: the position and opening_argument of a Debater change only in a successful
\* opening call of that Debater: its own rebuttal calls, every call of the other
\* Debater and every call of the Judge leave them as they were.
C20_OnlyOwnOpeningWrites ==
    [][\A d \in Debaters :
          (debater'[d].position # debater[d].position
           \/ debater'[d].opening_argument # debater[d].opening_argument)
          => /\ last.op = "idle"
             /\ last'.op \in OpeningOps
             /\ last'.who = d
             /\ last'.outcome.status = "returned"]_vars

\* debater_x has rebutted with success after both Debaters opened, and still holds
\* the opening the transcript has on file for it
C20_Witness ==
    /\ last.op = "generate_rebuttal"
    /\ last.who = "debater_x"
    /\ Returned
    /\ debater["debater_y"].opening_argument # None
    /\ <<"debater_x", "opening">> \in done
    /\ debater["debater_x"].opening_argument = debate_history["debater_x"]["opening"]

\* both sides of the transcript have an opening
BothOpenings ==
    \A side \in Debaters :
        side \in DOMAIN debate_history /\ "opening" \in DOMAIN debate_history[side]

\* the transcript with a rebuttal put in for each side that has none
WithRebuttals(history) ==
    [side \in DOMAIN history |->
        IF "rebuttal" \in DOMAIN history[side] THEN history[side]
        ELSE SetKey(history[side], "rebuttal",
                    [rebuttal |-> "t", counterarguments |-> <<"p">>, citations |-> Citations])]

\* the outcome of the decision call in flight, had it been given another transcript
OutcomeOn(history) ==
    CASE last.op = "make_decision" -> MakeDecisionOutcome(last.answer)
      [] last.op = "make_decision_irac" -> MakeDecisionIracOutcome(last.answer)
      [] last.op = "make_decision_hybrid" -> MakeDecisionHybridOutcome(history, last.answer)

\* C21: with both openings in the transcript, a missing rebuttal of one or both sides
\* changes nothing in a decision call of any variant: it fails or returns, and
\* returns the same decision, as on the transcript that has those rebuttals.
C21_MissingRebuttalNoFailure ==
    last.op \in DecisionOps /\ BothOpenings
    => /\ last.outcome = OutcomeOn(WithRebuttals(debate_history))
       /\ Raised => last.outcome.type \in {"ValueError", "GenerationError"}
       /\ last.answer.ok /\ DecisionError(last.answer.json) = <<>>
          /\ last.op = "make_decision" => Returned

\* a hybrid decision is returned on a transcript that has both openings and no rebuttal
C21_Witness ==
    /\ last.op = "make_decision_hybrid"
    /\ BothOpenings
    /\ \A side \in Debaters : "rebuttal" \notin DOMAIN debate_history[side]
    /\ WithRebuttals(debate_history) # debate_history
    /\ Returned
    /\ last.outcome.value["decision"] = StoredPosition("debater_y")

ValidPayload ==
    /\ last.answer.ok
    /\ LET json == last.answer.json IN
       CASE last.op = "generate_opening" ->
              {"position", "argument"} \subseteq DOMAIN json /\ json["position"] \in Labels
         [] last.op = "generate_opening_irac" ->
              /\ {"position", "irac"} \subseteq DOMAIN json
              /\ json["position"] \in Labels
              /\ {"issue", "rule", "application", "conclusion"} \subseteq DOMAIN json["irac"]
         [] last.op = "generate_rebuttal" -> "rebuttal" \in DOMAIN json
         [] last.op = "generate_rebuttal_irac" ->
              /\ "rebuttal" \in DOMAIN json
              /\ {"issue_critique", "rule_critique", "application_critique",
                  "my_reinforcement"} \subseteq DOMAIN json["rebuttal"]
         [] last.op \in DecisionOps -> PassesValidation
         [] OTHER -> FALSE

\* the phases of the requests made to the client in the run, in their order
CallOrder == [i \in DOMAIN run.calls |-> <<run.calls[i].who, Phase(run.calls[i].op)>>]

\* C23 (as claimed): in a run of any variant every phase that gets a valid payload
\* from the client succeeds on its one request, so that the run goes on; and a run
\* that has decided has made exactly five requests, in the order X.open, Y.open,
\* X.rebut given Y's opening, Y.rebut given X's opening, Judge.decide given the
\* transcript of both openings and both rebuttals, and has nothing in flight.
C23_FiveCallsInOrder ==
    /\ run.variant \in Variants /\ last # Idle /\ ValidPayload
           => Returned /\ last.calls = 1
    /\ run.state = "DECIDED"
           => LET transcript == run.outcome.value.transcript IN
              /\ last = Idle
              /\ CallOrder = <<<<"debater_x", "opening">>, <<"debater_y", "opening">>,
                               <<"debater_x", "rebuttal">>, <<"debater_y", "rebuttal">>,
                               <<"judge", "decision">>>>
              /\ run.calls[3].given = transcript["debater_y"]["opening"]
              /\ run.calls[4].given = transcript["debater_x"]["opening"]
              /\ run.calls[5].given = transcript
              /\ \A side \in Debaters : DOMAIN transcript[side] = {"opening", "rebuttal"}

\* C24: the hybrid decision checks the label before the winner: an answer whose
\* decision is absent or outside A, B, C, D fails with the schema failure of the
\* decision field and never with the consistency failure, whatever the winner and
\* the positions in the transcript; a consistency failure has a decision among the labels.
C24_LabelBeforeConsistency ==
    last.op = "make_decision_hybrid" /\ last.answer.ok
    => LET json == last.answer.json
           labelled == "decision" \in DOMAIN json /\ json["decision"] \in Labels
       IN /\ ~labelled => DecisionFieldFailure /\ ~ConsistencyFailure
          /\ ConsistencyFailure => labelled

\* decision "E" for debater_y, whose opening holds B: both checks would refuse it,
\* and the failure is the one of the label
C24_Witness ==
    /\ last.op = "make_decision_hybrid"
    /\ last.answer.ok
    /\ "decision" \in DOMAIN last.answer.json
    /\ last.answer.json["decision"] = "E"
    /\ "winner" \in DOMAIN last.answer.json
    /\ last.answer.json["winner"] = "debater_y"
    /\ StoredPosition("debater_y") = "B"
    /\ RaisedWith("ValueError", <<"Invalid decision choice", "E">>)

\* C25: an opening call that fails, of either variant, leaves position and
\* opening_argument of the Debater as they were before the call, unassigned or those
\* of its last successful opening; and a rebuttal of a Debater whose position and
\* opening_argument are unassigned fails with the sequence failure.
C25_FailedOpenStoresNothing ==
    [][/\ last.op = "idle" /\ last'.op \in OpeningOps /\ last'.outcome.status = "raised"
          => /\ debater'[last'.who].position = debater[last'.who].position
             /\ debater'[last'.who].opening_argument = debater[last'.who].opening_argument
       /\ last.op = "idle" /\ last'.op \in RebuttalOps /\ debater[last'.who] = NewDebater
          => /\ last'.outcome.status = "raised"
             /\ last'.outcome.msg = <<"Must generate opening argument before rebuttal">>
             /\ last'.calls = 0]_vars

\* a vanilla opening has failed on its schema for a Debater that holds the opening of
\* an earlier successful call
C25_Witness ==
    /\ last.op = "generate_opening"
    /\ last.answer.ok
    /\ "position" \in DOMAIN last.answer.json
    /\ last.answer.json["position"] = "B"
    /\ RaisedWith("ValueError", <<"Invalid debater response">>)
    /\ debater[last.who].position = "A"
    /\ debater[last.who].opening_argument # None

C27_ReopenReplaces ==
    [][/\ last.op = "idle" /\ last'.op \in OpeningOps /\ last'.outcome.status = "returned"
          => /\ debater'[last'.who].position = last'.outcome.value["position"]
             /\ debater'[last'.who].opening_argument = last'.outcome.value
       /\ last.op = "idle" /\ last'.op = "generate_rebuttal" /\ last'.calls = 1
          => /\ last'.prompt.my_position = debater[last'.who].position
             /\ last'.prompt.my_argument = debater[last'.who].opening_argument["argument"]]_vars

\* debater_y, which had opened with A and rebutted, has opened again with B: it holds
\* the new payload while the transcript still has the first opening on file
C27_Witness ==
    /\ last.op = "generate_opening"
    /\ last.who = "debater_y"
    /\ Returned
    /\ last.outcome.value["position"] = "B"
    /\ <<"debater_y", "rebuttal">> \in done
    /\ StoredPosition("debater_y") = "A"
    /\ debater["debater_y"].position = "B"
    /\ debater["debater_y"].opening_argument = last.outcome.value

\* C28 (as claimed): a vanilla opening whose answer has a position and no argument,
\* and an IRAC opening whose answer has a position and no irac, fail with the schema
\* failure.
C28_OpeningBodyRequired ==
    /\ last.op \in OpeningOps
    /\ last.answer.ok
    /\ "position" \in DOMAIN last.answer.json
    /\ \/ last.op = "generate_opening" /\ "argument" \notin DOMAIN last.answer.json
       \/ last.op = "generate_opening_irac" /\ "irac" \notin DOMAIN last.answer.json
    => SchemaFailure

\* the call of evaluate_with_llm_judge in flight had a text to evaluate, got an answer
\* from the client, and every score in the answer is a number
Scored ==
    /\ last.prediction # "" /\ last.reference # ""
    /\ last.answer.ok
    /\ \A k \in {"correctness", "reasoning", "citations"} \cap DOMAIN last.answer.json :
           last.answer.json[k].number

\* all five scores returned are zero
AllZero ==
    \A k \in {"correctness", "reasoning", "citations", "total", "normalized"} :
        last.outcome.value[k] = 0

\* the three scores returned are within 0-4, 0-3 and 0-4 points, the total within 0-11
InRange ==
    LET s == last.outcome.value IN
    /\ 0 <= s.correctness /\ s.correctness <= max_correctness * 100
    /\ 0 <= s.reasoning /\ s.reasoning <= max_reasoning * 100
    /\ 0 <= s.citations /\ s.citations <= max_citations * 100
    /\ 0 <= s.total /\ s.total <= max_total * 100

ClampedSum ==
    LET limited(k, hi) ==
            LET x == IF k \in DOMAIN last.answer.json
                     THEN last.answer.json[k].thousandths ELSE 0
            IN IF x < 0 THEN 0 ELSE IF x > hi * 1000 THEN hi * 1000 ELSE x
    IN limited("correctness", max_correctness) + limited("reasoning", max_reasoning)
       + limited("citations", max_citations)

InBoth ==
    LET in_expected == ToSet(last.expected)
    IN {c \in ToSet(last.predicted) : c \in in_expected}

\* what C30 says of empty lists and of matched_count
CountsAsClaimed ==
    LET s == last.outcome.value IN
    /\ Returned
    /\ last.predicted = <<>> /\ last.expected = <<>>
          => /\ s.precision = 10000 /\ s.recall = 10000 /\ s.f1 = 10000
             /\ s.predicted_count = 0 /\ s.expected_count = 0 /\ s.matched_count = 0
    /\ (last.predicted = <<>>) # (last.expected = <<>>)
          => s.precision = 0 /\ s.recall = 0 /\ s.f1 = 0 /\ s.matched_count = 0
    /\ last.predicted # <<>> /\ last.expected # <<>>
          => s.matched_count = Cardinality(InBoth)

====
